---- MODULE Spec2Model ----
(***************************************************************************)
(* Student & mentor management dashboard (src/app.py).                     *)
(*                                                                         *)
(* The state is the four tables of leave_management.db, the files the      *)
(* program keeps on disk, and the last backend call with its return value. *)
(* Every backend function is one action: it opens a connection, runs its   *)
(* statements, commits (or closes without committing) and returns.         *)
(*                                                                         *)
(* No backend function of one component touches the tables of another, so  *)
(* the three components are explored separately: SpecLeave (leave          *)
(* workflow), SpecDocs (ingestion and query), SpecCert (certificates).     *)
(***************************************************************************)
EXTENDS Integers, Sequences, FiniteSets, TLC

\* ---------------------------------------------------------------- bounds
MaxRequests == 2        \* rows of leave_requests explored
MaxDocs == 3            \* rows of academic_docs explored
MaxRows == 2            \* rows of an uploaded tabular file
Today == 0              \* day number datetime.date.today() returns

\* ------------------------------------------------------ program constants
MinDays == 1            \* st.number_input(min_value=1)
MaxDays == 30           \* st.number_input(max_value=30)
AutoApproveDays == 5    \* if days <= 5

Students == {"s1", "s2"}
Mentors == {"mentor1", "mentor2"}
AutoApproved == "Auto-Approved"
NoMentorMsg == "No mentor found for this student."
None == [none |-> TRUE]
NeverAssigned == "never-assigned"   \* last_assigned before any assign_mentor

\* Day counts a student can enter: both ends of the UI range and both sides
\* of the auto-approval threshold.
DayChoices == {MinDays, AutoApproveDays, AutoApproveDays + 1, MaxDays}

VARIABLES
    leave_requests,      \* table leave_requests, in storage order
    mentor_assignments,  \* table mentor_assignments, a set of rows
    academic_docs,       \* table academic_docs, in storage order
    certificate_templates, \* table certificate_templates, a set of rows
    files,               \* files on disk: path -> content
    call,                \* the backend function last called, with its arguments
    ret,                 \* what that call returned (or raised)
    outbound,            \* chat-completion requests sent by that call
    last_assigned        \* history: student -> mentor of the last assign_mentor

vars == <<leave_requests, mentor_assignments, academic_docs,
          certificate_templates, files, call, ret, outbound, last_assigned>>

leaveVars == <<leave_requests, mentor_assignments, last_assigned>>
docVars == <<academic_docs, outbound>>
certVars == <<certificate_templates, files>>

\* ------------------------------------------------------------ initialize_db
\* CREATE TABLE IF NOT EXISTS on a fresh database file: four empty tables.
initialize_db ==
    /\ leave_requests = <<>>
    /\ mentor_assignments = {}
    /\ academic_docs = <<>>
    /\ certificate_templates = {}

Init ==
    /\ initialize_db
    /\ files = <<>>
    /\ call = <<"initialize_db">>
    /\ ret = None
    /\ outbound = 0
    /\ last_assigned = [s \in Students |-> NeverAssigned]

\* ------------------------------------------------------------- sql helpers
\* cursor.fetchone() on a result set: a row, or None when there is none.
fetchone(rows) == IF rows = {} THEN None ELSE CHOOSE r \in rows : TRUE

\* INSERT of a row without conflict handling.
PlainInsert(table, row) == table \cup {row}

\* INSERT OR REPLACE on a table whose PRIMARY KEY is student_id.
InsertOrReplace(table, row) ==
    {r \in table : r.student_id # row.student_id} \cup {row}

\* SELECT mentor_id FROM mentor_assignments (no WHERE clause).
SelectAnyMentor(student_id) == mentor_assignments

\* SELECT mentor_id FROM mentor_assignments WHERE student_id = ?
SelectMentor(student_id) ==
    {r \in mentor_assignments : r.student_id = student_id}

\* --------------------------------------------------------------- assign_mentor
assign_mentor(student_id, mentor_id) ==
    /\ mentor_assignments' =
         InsertOrReplace(mentor_assignments,
                         [student_id |-> student_id, mentor_id |-> mentor_id])
    /\ last_assigned' = [last_assigned EXCEPT ![student_id] = mentor_id]
    /\ call' = <<"assign_mentor", student_id, mentor_id>>
    /\ ret' = None
    /\ UNCHANGED <<leave_requests, docVars, certVars>>

\* ------------------------------------------------------- process_leave_request
\* The policy of lines 91-99 with the threshold test off by one.
RouteStrict(days, mentor) ==
    IF days < AutoApproveDays
    THEN [insert |-> TRUE, status |-> "approved", mentor_id |-> AutoApproved]
    ELSE IF mentor # None
    THEN [insert |-> TRUE, status |-> "pending", mentor_id |-> mentor.mentor_id]
    ELSE [insert |-> FALSE]

\* The policy of lines 91-99 without the final else branch.
RouteNoElse(days, mentor) ==
    IF days <= AutoApproveDays
    THEN [insert |-> TRUE, status |-> "approved", mentor_id |-> AutoApproved]
    ELSE IF mentor # None
    THEN [insert |-> TRUE, status |-> "pending", mentor_id |-> mentor.mentor_id]
    ELSE [insert |-> TRUE, status |-> "pending", mentor_id |-> "None"]

\* if days <= 5 / elif mentor / else: the row to insert, or no row.
Route(days, mentor) ==
    IF days <= AutoApproveDays
    THEN [insert |-> TRUE, status |-> "approved", mentor_id |-> AutoApproved]
    ELSE IF mentor # None
    THEN [insert |-> TRUE, status |-> "pending", mentor_id |-> mentor.mentor_id]
    ELSE [insert |-> FALSE]

\* id INTEGER PRIMARY KEY AUTOINCREMENT: one more than the largest id used
\* (rows are never deleted).
NextId(rows) == Len(rows) + 1

process_leave_request(student_id, days) ==
    LET start_date == Today
        end_date == Today + days
        mentor == fetchone(SelectMentor(student_id))
        r == Route(days, mentor)
    IN  /\ call' = <<"process_leave_request", student_id, days>>
        /\ IF r.insert
           THEN /\ Len(leave_requests) < MaxRequests
                /\ leave_requests' = Append(leave_requests,
                       [id |-> NextId(leave_requests),
                        student_id |-> student_id,
                        mentor_id |-> r.mentor_id,
                        days |-> days,
                        start_date |-> start_date,
                        end_date |-> end_date,
                        status |-> r.status])
                /\ ret' = <<TRUE, "sent", days, r.mentor_id, r.status>>
           ELSE /\ leave_requests' = leave_requests
                /\ ret' = <<FALSE, NoMentorMsg>>
        /\ UNCHANGED <<mentor_assignments, last_assigned, docVars, certVars>>

\* ------------------------------------------------------------------- queries
\* The columns the student query selects: every column but id and student_id.
StudentColumns(r) ==
    [mentor_id |-> r.mentor_id, days |-> r.days, start_date |-> r.start_date,
     end_date |-> r.end_date, status |-> r.status]

\* SELECT mentor_id, days, start_date, end_date, status
\* FROM leave_requests WHERE student_id = ?
get_student_leave_status(student_id) ==
    LET requests ==
            SelectSeq(leave_requests, LAMBDA r : r.student_id = student_id)
    IN  [i \in 1..Len(requests) |-> StudentColumns(requests[i])]

\* The columns the mentor query selects: every column but mentor_id.
MentorColumns(r) ==
    [id |-> r.id, student_id |-> r.student_id, days |-> r.days,
     start_date |-> r.start_date, end_date |-> r.end_date, status |-> r.status]

\* The mentor query without the status filter.
MentorRequestsAnyStatus(mentor_id) ==
    LET requests ==
            SelectSeq(leave_requests, LAMBDA r : r.mentor_id = mentor_id)
    IN  [i \in 1..Len(requests) |-> MentorColumns(requests[i])]

\* SELECT id, student_id, days, start_date, end_date, status
\* FROM leave_requests WHERE mentor_id = ? AND status = 'pending'
get_mentor_leave_requests(mentor_id) ==
    LET requests ==
            SelectSeq(leave_requests,
                      LAMBDA r : r.mentor_id = mentor_id /\ r.status = "pending")
    IN  [i \in 1..Len(requests) |-> MentorColumns(requests[i])]

\* ------------------------------------------------- approve / reject
\* An UPDATE that only decides requests that are still pending.
UpdatePendingOnly(rows, leave_id, status) ==
    [i \in 1..Len(rows) |->
        IF rows[i].id = leave_id /\ rows[i].status = "pending"
        THEN [rows[i] EXCEPT !.status = status] ELSE rows[i]]

\* UPDATE leave_requests SET status = ? WHERE id = ?
UpdateStatus(rows, leave_id, status) ==
    [i \in 1..Len(rows) |->
        IF rows[i].id = leave_id
        THEN [rows[i] EXCEPT !.status = status] ELSE rows[i]]

approve_leave_request(leave_id) ==
    /\ leave_requests' = UpdateStatus(leave_requests, leave_id, "approved")
    /\ call' = <<"approve_leave_request", leave_id>>
    /\ ret' = None
    /\ UNCHANGED <<mentor_assignments, last_assigned, docVars, certVars>>

reject_leave_request(leave_id) ==
    /\ leave_requests' = UpdateStatus(leave_requests, leave_id, "rejected")
    /\ call' = <<"reject_leave_request", leave_id>>
    /\ ret' = None
    /\ UNCHANGED <<mentor_assignments, last_assigned, docVars, certVars>>

\* ------------------------------------------------------------ leave workflow
LeaveIds == 1..MaxRequests

AssignStep == \E s \in Students, m \in Mentors : assign_mentor(s, m)
SubmitStep == \E s \in Students, d \in DayChoices : process_leave_request(s, d)
ApproveStep == \E id \in LeaveIds : approve_leave_request(id)
RejectStep == \E id \in LeaveIds : reject_leave_request(id)

NextLeave == AssignStep \/ SubmitStep \/ ApproveStep \/ RejectStep

SpecLeave == Init /\ [][NextLeave]_vars

\* ========================================================= document ingestion
UploadOk == "AI Training Data Uploaded Successfully."
InvalidFormat == "Invalid file format. Supported formats: CSV, XLSX, JSON, PDF"
NoData == "No academic data available. Please upload training data."

\* A cell value json.dumps cannot serialise (a Timestamp read from a sheet).
Unserializable == "Timestamp"
RowValues == {"a", "b", Unserializable}
JsonValues == {"a"}
PageTexts == {"", "p"}
Suffixes == {".csv", ".xlsx", ".json", ".pdf", ".txt"}

RECURSIVE SeqsUpTo(_, _)
SeqsUpTo(S, n) ==
    IF n = 0 THEN {<<>>}
    ELSE LET shorter == SeqsUpTo(S, n - 1)
         IN  shorter \cup {Append(q, x) : q \in shorter, x \in S}

\* The uploads explored: a suffix, whether the parser rejects the payload,
\* and the parsed payload (rows, the JSON value, or the page texts).
Uploads ==
    {[suffix |-> sfx, malformed |-> TRUE, body |-> <<>>] : sfx \in Suffixes}
    \cup {[suffix |-> sfx, malformed |-> FALSE, body |-> b] :
             sfx \in {".csv", ".xlsx"}, b \in SeqsUpTo(RowValues, MaxRows)}
    \cup {[suffix |-> ".json", malformed |-> FALSE, body |-> <<v>>] :
             v \in JsonValues}
    \cup {[suffix |-> ".pdf", malformed |-> FALSE, body |-> b] :
             b \in SeqsUpTo(PageTexts, MaxRows)}
    \cup {[suffix |-> ".txt", malformed |-> FALSE, body |-> <<>>]}

\* filename.endswith(suffix)
EndsWith(file, suffix) == file.suffix = suffix
IsTabular(file) == EndsWith(file, ".csv") \/ EndsWith(file, ".xlsx")

\* json.dumps(value): the JSON text of a value.
json_dumps(value) == <<"json", value>>

\* "\n".join([page.extract_text() for page in reader.pages if page.extract_text()])
pdf_text(pages) == <<"text", SelectSeq(pages, LAMBDA t : t # "")>>

\* A connection: the committed table and the connection's own view of it,
\* which holds the rows of its open transaction.
Connect(table) == [committed |-> table, working |-> table]

\* cursor.execute("INSERT INTO academic_docs (content) VALUES (?)", ...)
Execute(conn, content) ==
    [conn EXCEPT !.working =
        Append(@, [id |-> Len(@) + 1, content |-> content])]

\* conn.commit()
Commit(conn) == [conn EXCEPT !.committed = conn.working]

\* A close that commits the open transaction.
CloseCommitting(conn) == conn.working

\* conn.close(): the open transaction is rolled back; what is stored is what
\* was committed.
Close(conn) == conn.committed

\* for _, row in df.iterrows(): cursor.execute(INSERT ..., json.dumps(row))
\* The connection after the loop, and whether json.dumps raised in it.
RECURSIVE InsertRows(_, _)
InsertRows(conn, rows) ==
    IF rows = <<>> THEN [conn |-> conn, raised |-> FALSE]
    ELSE IF Head(rows) = Unserializable THEN [conn |-> conn, raised |-> TRUE]
    ELSE InsertRows(Execute(conn, json_dumps(Head(rows))), Tail(rows))

\* The try block of upload_ai_training_data: the connection when the
\* function closes it, and the value it returns.
Ingest(file, conn) ==
    IF IsTabular(file) THEN
        IF file.malformed THEN [conn |-> conn, ret |-> <<FALSE, "Error", "parse">>]
        ELSE LET loop == InsertRows(conn, file.body)
             IN  IF loop.raised
                 THEN [conn |-> loop.conn, ret |-> <<FALSE, "Error", "TypeError">>]
                 ELSE [conn |-> Commit(loop.conn), ret |-> <<TRUE, UploadOk>>]
    ELSE IF EndsWith(file, ".json") THEN
        IF file.malformed THEN [conn |-> conn, ret |-> <<FALSE, "Error", "parse">>]
        ELSE [conn |-> Commit(Execute(conn, json_dumps(file.body[1]))),
              ret |-> <<TRUE, UploadOk>>]
    ELSE IF EndsWith(file, ".pdf") THEN
        IF file.malformed THEN [conn |-> conn, ret |-> <<FALSE, "Error", "parse">>]
        ELSE [conn |-> Commit(Execute(conn, pdf_text(file.body))),
              ret |-> <<TRUE, UploadOk>>]
    ELSE [conn |-> conn, ret |-> <<FALSE, InvalidFormat>>]

upload_ai_training_data(file) ==
    LET done == Ingest(file, Connect(academic_docs))
    IN  /\ Len(done.conn.working) <= MaxDocs
        /\ academic_docs' = Close(done.conn)
        /\ call' = <<"upload_ai_training_data", file>>
        /\ ret' = done.ret
        /\ outbound' = 0
        /\ UNCHANGED <<leaveVars, certVars>>

\* ============================================================ knowledge query
Queries == {"q"}
\* What client.chat.completions.create can do: answer, or raise.
ApiOutcomes == {"answer", "raise"}

\* A query that calls the service whether or not documents are stored.
RequestsAlways(documents) == 1

\* if not documents: return ...; otherwise one create() call, in a try block
\* with no loop around it: the number of requests a query sends.
Requests(documents) == IF documents = <<>> THEN 0 ELSE 1

academic_query(query, outcome) ==
    LET documents == [i \in 1..Len(academic_docs) |-> academic_docs[i].content]
    IN  /\ call' = <<"academic_query", query>>
        /\ outbound' = Requests(documents)
        /\ ret' = IF Requests(documents) = 0 THEN <<NoData>>
                  ELSE IF outcome = "answer" THEN <<"ai_response">>
                  ELSE <<"AI Error", "exception">>
        /\ UNCHANGED <<academic_docs, leaveVars, certVars>>

UploadStep == \E f \in Uploads : upload_ai_training_data(f)
QueryStep == \E q \in Queries, o \in ApiOutcomes : academic_query(q, o)

NextDocs == UploadStep \/ QueryStep

SpecDocs == Init /\ [][NextDocs]_vars

\* ====================================================== certificate templates
CertTypes == {"Bonafide", "NOC"}       \* st.selectbox options
\* Bytes an admin can upload: two PDF documents, and bytes that are no PDF
\* (only the declared MIME type is checked).
TemplateBytes == {"pdfA", "pdfB", "junk"}
IsPdf(bytes) == bytes # "junk"

\* str.lower() on the certificate types.
Lower(t) == CASE t = "Bonafide" -> "bonafide"
              [] t = "NOC" -> "noc"
              [] OTHER -> t

\* os.path.join(TEMPLATES_DIR, f"{template_type.lower()}_template.pdf")
TemplatePath(template_type) ==
    <<"cwd", "templates", Lower(template_type), "_template.pdf">>

\* os.path.join(os.getcwd(), f"{student_id}_{cert_type.lower()}_certificate.pdf")
CertificatePath(student_id, cert_type) ==
    <<"cwd", student_id, Lower(cert_type), "_certificate.pdf">>

\* os.path.exists(path)
Exists(fs, path) == path \in DOMAIN fs

\* open(path, "wb") and write: the file is created or overwritten.
WriteFile(fs, path, bytes) ==
    [q \in DOMAIN fs \cup {path} |-> IF q = path THEN bytes ELSE fs[q]]

\* os.remove(path)
RemoveFile(fs, path) == [q \in DOMAIN fs \ {path} |-> fs[q]]

\* INSERT OR REPLACE on certificate_templates, PRIMARY KEY template_type.
UpsertTemplate(table, row) ==
    {r \in table : r.template_type # row.template_type} \cup {row}

set_certificate_template(template_type, template_file) ==
    LET template_path == TemplatePath(template_type)
    IN  /\ files' = WriteFile(files, template_path, template_file)
        /\ certificate_templates' =
              UpsertTemplate(certificate_templates,
                  [template_type |-> template_type, file_path |-> template_path])
        /\ call' = <<"set_certificate_template", template_type, template_file>>
        /\ ret' = None
        /\ UNCHANGED <<leaveVars, docVars>>

\* The templates directory is emptied outside the program; the rows of
\* certificate_templates stay. generate_certificate tests for this case.
TemplateFileLost(template_type) ==
    /\ Exists(files, TemplatePath(template_type))
    /\ files' = RemoveFile(files, TemplatePath(template_type))
    /\ call' = <<"template_file_lost", template_type>>
    /\ ret' = None
    /\ UNCHANGED <<certificate_templates, leaveVars, docVars>>

\* ===================================================== certificate generation
\* The page written on the overlay path: the template's first page with the
\* three overlay lines merged onto it.
OverlayPdf(template, student_id, cert_type) ==
    <<"overlay", template, student_id, cert_type, Today>>

\* The page drawn from scratch; only the two known types get a body text.
SynthPdf(student_id, cert_type) ==
    <<"synth", cert_type, student_id, Today,
      IF Lower(cert_type) \in {"bonafide", "noc"} THEN Lower(cert_type)
      ELSE "no-body">>

\* A clean-up that leaves the output file in place.
KeepOutput(fs, filepath) == fs

\* if os.path.exists(filepath): os.remove(filepath)
CleanUp(fs, filepath) ==
    IF Exists(fs, filepath) THEN RemoveFile(fs, filepath) ELSE fs

generate_certificate(student_id, cert_type) ==
    LET template_record ==
            fetchone({r \in certificate_templates : r.template_type = cert_type})
        filepath == CertificatePath(student_id, cert_type)
        use_template ==
            template_record # None /\ Exists(files, template_record.file_path)
    IN  /\ call' = <<"generate_certificate", student_id, cert_type>>
        /\ IF use_template /\ ~IsPdf(files[template_record.file_path])
           THEN \* PyPDF2.PdfReader raises before the output file is opened
                /\ files' = files
                /\ ret' = <<"raised", "PdfReadError">>
           ELSE LET written ==
                        WriteFile(files, filepath,
                            IF use_template
                            THEN OverlayPdf(files[template_record.file_path],
                                            student_id, cert_type)
                            ELSE SynthPdf(student_id, cert_type))
                    pdf_bytes == written[filepath]
                IN  /\ files' = CleanUp(written, filepath)
                    /\ ret' = <<"returned", pdf_bytes>>
        /\ UNCHANGED <<certificate_templates, leaveVars, docVars>>

SetTemplateStep ==
    \E t \in CertTypes, b \in TemplateBytes : set_certificate_template(t, b)
TemplateLostStep == \E t \in CertTypes : TemplateFileLost(t)
GenerateStep ==
    \E s \in Students, t \in CertTypes : generate_certificate(s, t)

NextCert == SetTemplateStep \/ TemplateLostStep \/ GenerateStep

SpecCert == Init /\ [][NextCert]_vars

\* ===================================================== leave workflow claims
IsSubmit(c, s, d) == c = <<"process_leave_request", s, d>>
LastRow(rows) == rows[Len(rows)]
Decided == {"approved", "rejected"}

\* The call appended exactly one row, for student s and d days, with the
\* given status and mentor, and touched no row already stored.
InsertedOne(s, d, status, mentor_id) ==
    /\ Len(leave_requests') = Len(leave_requests) + 1
    /\ SubSeq(leave_requests', 1, Len(leave_requests)) = leave_requests
    /\ LastRow(leave_requests').student_id = s
    /\ LastRow(leave_requests').days = d
    /\ LastRow(leave_requests').status = status
    /\ LastRow(leave_requests').mentor_id = mentor_id

\* C1: for every student and every day count 1 <= d <= 5, submitting leave
\* succeeds and inserts exactly one request with status approved and mentor
\* "Auto-Approved", with or without a mentor assignment.
C1_AutoApprove ==
    [][\A s \in Students, d \in DayChoices :
         (MinDays <= d /\ d <= 5 /\ IsSubmit(call', s, d)) =>
            /\ ret'[1] = TRUE
            /\ InsertedOne(s, d, "approved", "Auto-Approved")]_vars

\* C1 witness: an auto-approved submission by a student who has a mentor.
C1_Witness ==
    /\ call[1] = "process_leave_request"
    /\ call[3] = 5
    /\ ret[1] = TRUE
    /\ SelectMentor(call[2]) # {}
    /\ LastRow(leave_requests).status = "approved"

\* C2: for every day count d > 5 submitted by a student assigned to mentor
\* M, submitting leave succeeds and inserts exactly one request with status
\* pending and mentor M, M being the mentor of the student's latest
\* assign_mentor call.
C2_RoutedToMentor ==
    [][\A s \in Students, d \in DayChoices :
         (d > 5 /\ last_assigned[s] # NeverAssigned /\ IsSubmit(call', s, d)) =>
            /\ ret'[1] = TRUE
            /\ InsertedOne(s, d, "pending", last_assigned[s])]_vars

\* C2 witness: a routed submission while the two students have different
\* mentors.
C2_Witness ==
    /\ call[1] = "process_leave_request"
    /\ call[3] > 5
    /\ ret[1] = TRUE
    /\ LastRow(leave_requests).status = "pending"
    /\ \A s \in Students : last_assigned[s] # NeverAssigned
    /\ \E s, t \in Students : last_assigned[s] # last_assigned[t]

\* C3: for every day count d > 5 submitted by a student with no mentor
\* assignment, submitting leave fails with the no-mentor message and leaves
\* leave_requests unchanged.
C3_NoMentorNoRow ==
    [][\A s \in Students, d \in DayChoices :
         (d > 5 /\ SelectMentor(s) = {} /\ IsSubmit(call', s, d)) =>
            /\ ret' = <<FALSE, "No mentor found for this student.">>
            /\ leave_requests' = leave_requests]_vars

\* C3 witness: a failed submission with rows already stored.
C3_Witness ==
    /\ call[1] = "process_leave_request"
    /\ call[3] > 5
    /\ ret[1] = FALSE
    /\ SelectMentor(call[2]) = {}
    /\ Len(leave_requests) > 0

\* C4: a request whose status is approved or rejected never changes status
\* again, whatever operations follow.
C4_StatusMonotone ==
    [][\A i \in 1..Len(leave_requests) :
         leave_requests[i].status \in Decided =>
            leave_requests'[i].status = leave_requests[i].status]_vars

\* C5: approve / reject on an existing id sets that request's status to the
\* requested value whatever it was, and changes no other request and no
\* other field; so the later of two decisions is the final status.
C5_DecideOverwrites ==
    [][\A id \in LeaveIds, d \in Decided :
         (/\ id \in {leave_requests[i].id : i \in 1..Len(leave_requests)}
          /\ call' = <<(IF d = "approved" THEN "approve_leave_request"
                                          ELSE "reject_leave_request"), id>>) =>
            /\ Len(leave_requests') = Len(leave_requests)
            /\ \A i \in 1..Len(leave_requests) :
                  leave_requests'[i] =
                     IF leave_requests[i].id = id
                     THEN [leave_requests[i] EXCEPT !.status = d]
                     ELSE leave_requests[i]]_vars

\* C5 witness: an auto-approved request was rejected afterwards, next to
\* another request.
C5_Witness ==
    /\ call[1] = "reject_leave_request"
    /\ Len(leave_requests) = 2
    /\ \E i \in 1..Len(leave_requests) :
          /\ leave_requests[i].id = call[2]
          /\ leave_requests[i].mentor_id = AutoApproved
          /\ leave_requests[i].status = "rejected"

\* C6: each student has at most one mentor assignment, and it is the mentor
\* of the latest assign_mentor call for that student (none before the first
\* call), whatever was assigned to other students.
C6_OneMentorLastWins ==
    \A s \in Students :
        /\ Cardinality(SelectMentor(s)) <= 1
        /\ last_assigned[s] = NeverAssigned => SelectMentor(s) = {}
        /\ last_assigned[s] # NeverAssigned =>
              SelectMentor(s) =
                 {[student_id |-> s, mentor_id |-> last_assigned[s]]}

\* C6 witness: a student was reassigned (a pending request still names the
\* earlier mentor) while the other student keeps an assignment.
C6_Witness ==
    /\ call[1] = "assign_mentor"
    /\ \A s \in Students : SelectMentor(s) # {}
    /\ \E i \in 1..Len(leave_requests) :
          /\ leave_requests[i].status = "pending"
          /\ leave_requests[i].student_id = call[2]
          /\ leave_requests[i].mentor_id # call[3]

\* Ids of the requests the mentor query lists.
Listed(rows) == {rows[i].id : i \in 1..Len(rows)}
Queriers == Mentors \cup {AutoApproved}

\* C10: the mentor query lists exactly the requests addressed to that mentor
\* that are pending: a pending request is listed for the mentor recorded in
\* it (whoever the student's mentor is now) and for no one else, and a
\* request that is auto-approved, approved or rejected is listed for no one.
C10_MentorQuery ==
    \A m \in Queriers :
        LET listed == get_mentor_leave_requests(m)
        IN  /\ \A i \in 1..Len(leave_requests) :
                  LET r == leave_requests[i]
                  IN  /\ (r.status = "pending" /\ r.mentor_id = m) <=>
                            r.id \in Listed(listed)
                      /\ r.mentor_id = AutoApproved => r.id \notin Listed(listed)
                      /\ r.status \in Decided => r.id \notin Listed(listed)
            /\ \A k \in 1..Len(listed) :
                  \E i \in 1..Len(leave_requests) :
                      /\ leave_requests[i].id = listed[k].id
                      /\ leave_requests[i].student_id = listed[k].student_id
                      /\ leave_requests[i].days = listed[k].days
            /\ Cardinality(Listed(listed)) = Len(listed)

\* C10 witness: a pending request stays listed for the mentor recorded at
\* submission after its student was reassigned, next to an auto-approved one.
C10_Witness ==
    /\ call[1] = "assign_mentor"
    /\ \E i, j \in 1..Len(leave_requests) :
          /\ leave_requests[i].student_id = call[2]
          /\ leave_requests[i].mentor_id \in Mentors \ {call[3]}
          /\ leave_requests[i].id \in
                Listed(get_mentor_leave_requests(leave_requests[i].mentor_id))
          /\ leave_requests[j].mentor_id = AutoApproved

\* ================================================ knowledge and ingest claims
\* C7: a query with no stored document returns the fixed no-data message and
\* sends no request to the chat-completion service; a request is sent only
\* by a query with at least one stored document, and then exactly one,
\* also when the call fails.
C7_QueryRequests ==
    /\ outbound > 0 => call[1] = "academic_query" /\ academic_docs # <<>>
    /\ call[1] = "academic_query" =>
          /\ academic_docs = <<>> =>
                /\ outbound = 0
                /\ ret = <<"No academic data available. Please upload training data.">>
          /\ academic_docs # <<>> => outbound = 1

\* C7 witness: a query answered with no stored document.
C7_Witness ==
    /\ call[1] = "academic_query"
    /\ academic_docs = <<>>
    /\ outbound = 0
    /\ ret = <<NoData>>

\* Rows of a tabular file before the first one that cannot be serialised.
RECURSIVE GoodPrefix(_)
GoodPrefix(rows) ==
    IF rows = <<>> \/ Head(rows) = Unserializable THEN <<>>
    ELSE <<Head(rows)>> \o GoodPrefix(Tail(rows))

\* The call c was a tabular upload that failed, with return value r, after
\* at least one row was processed.
FailedPartway(c, r) ==
    /\ c[1] = "upload_ai_training_data"
    /\ IsTabular(c[2]) /\ ~c[2].malformed
    /\ GoodPrefix(c[2].body) # <<>>
    /\ r[1] = FALSE

Contents(docs) == [i \in 1..Len(docs) |-> docs[i].content]

\* C9: when ingestion of a tabular file fails partway through its rows, the
\* documents of the rows processed before the failure remain stored.
C9_PartialRowsKept ==
    [][FailedPartway(call', ret') =>
          Contents(academic_docs') =
             Contents(academic_docs) \o
                [i \in 1..Len(GoodPrefix(call'[2].body)) |->
                    json_dumps(GoodPrefix(call'[2].body)[i])]]_vars

\* C9 (amended): when ingestion of a tabular file fails partway through its
\* rows, no document of that file is stored: academic_docs is as before.
C9_FailedUploadStoresNothing ==
    [][FailedPartway(call', ret') => academic_docs' = academic_docs]_vars

\* C9 witness: a tabular upload failed on its second row, with documents of
\* an earlier upload stored.
C9_Witness ==
    /\ FailedPartway(call, ret)
    /\ Len(GoodPrefix(call[2].body)) = 1
    /\ academic_docs # <<>>

\* ========================================================= certificate claims
\* C8: no output file of generate_certificate is on disk after it returns,
\* on the overlay path and on the synthesis path, after any sequence of
\* template uploads and certificate generations.
C8_NoOutputFileLeft ==
    /\ \A s \in Students, t \in CertTypes :
          ~Exists(files, CertificatePath(s, t))
    /\ DOMAIN files \subseteq {TemplatePath(t) : t \in CertTypes}

\* C8 witness: a certificate was returned from the overlay path.
C8_Witness ==
    /\ call[1] = "generate_certificate"
    /\ ret[1] = "returned"
    /\ ret[2][1] = "overlay"
    /\ Exists(files, TemplatePath(call[3]))

====
